---- MODULE Spec2Model ----
(***************************************************************************)
(* Model of hypoDDpy's plotting code:                                      *)
(*   hypoddpy/plotting/map_cross_section.py  (MapCrossSection)             *)
(*   hypoddpy/plotting/shape_selection.py    (Circle, Polygon)             *)
(*   hypoddpy/hypodd_plotter.py              (HypoDDPlotter)               *)
(*                                                                         *)
(* Floating-point numbers are modelled by exact rationals <<n, d>> with    *)
(* d > 0 and gcd(n, d) = 1; rounding error is not modelled.  An operation  *)
(* that numpy would answer with inf or nan (division by zero) is modelled  *)
(* by the marker NonFinite, a pair with denominator 0.                     *)
(***************************************************************************)
EXTENDS Integers, Sequences, FiniteSets, TLC

(***************************************************************************)
(* Bounds of the model.                                                    *)
(***************************************************************************)
MaxCalls == 1        \* direct MapCrossSection constructions by the caller
MaxEvents == 2       \* events in the catalog

\* Python's None where a list or tuple object is expected
NoneObj == [kind |-> "None", val |-> << >>]
\* a float that is inf or nan: a "rational" with denominator 0
NonFinite == << 1, 0 >>

(***************************************************************************)
(* Exact rational arithmetic (Python float / numpy.float64 values).        *)
(***************************************************************************)
Abs(n) == IF n < 0 THEN -n ELSE n

RECURSIVE GCD(_, _)
GCD(a, b) == IF b = 0 THEN a ELSE GCD(b, a % b)

Norm(n, d) ==
    LET s == IF d < 0 THEN -1 ELSE 1
        g == GCD(Abs(n), Abs(d))
    IN  << (s * n) \div g, (s * d) \div g >>

R(n) == << n, 1 >>
Frac(n, d) == Norm(n, d)

RNeg(a) == << -a[1], a[2] >>

RAdd(a, b) ==
    LET g == GCD(a[2], b[2])
        l == (a[2] \div g) * b[2]
    IN  Norm(a[1] * (l \div a[2]) + b[1] * (l \div b[2]), l)

RSub(a, b) == RAdd(a, RNeg(b))

RMul(a, b) ==
    LET g1 == GCD(Abs(a[1]), b[2])
        g2 == GCD(Abs(b[1]), a[2])
    IN  Norm((a[1] \div g1) * (b[1] \div g2), (a[2] \div g2) * (b[2] \div g1))

RInv(a) == IF a[1] < 0 THEN << -a[2], -a[1] >> ELSE << a[2], a[1] >>

RDiv(a, b) == RMul(a, RInv(b))

RLt(a, b) ==
    LET g == GCD(a[2], b[2])
        l == (a[2] \div g) * b[2]
    IN  a[1] * (l \div a[2]) < b[1] * (l \div b[2])

RGt(a, b) == RLt(b, a)
RLe(a, b) == ~RLt(b, a)
RIsZero(a) == a[1] = 0
IsFinite(a) == a[2] # 0
\* products, sums and quotients of floats that may be inf or nan
FMul(a, b) == IF IsFinite(a) /\ IsFinite(b) THEN RMul(a, b) ELSE NonFinite
FAdd(a, b) == IF IsFinite(a) /\ IsFinite(b) THEN RAdd(a, b) ELSE NonFinite
FDiv(a, b) ==
    IF IsFinite(a) /\ IsFinite(b) /\ ~RIsZero(b) THEN RDiv(a, b) ELSE NonFinite

RECURSIVE SeqMin(_)
SeqMin(s) ==
    IF Len(s) = 1 THEN s[1]
    ELSE LET m == SeqMin(Tail(s)) IN IF RLt(m, s[1]) THEN m ELSE s[1]

RECURSIVE SeqMax(_)
SeqMax(s) ==
    IF Len(s) = 1 THEN s[1]
    ELSE LET m == SeqMax(Tail(s)) IN IF RGt(m, s[1]) THEN m ELSE s[1]

(***************************************************************************)
(* np.cos(np.radians(deg)).  The cosine is modelled by Bhaskara's rational *)
(* approximation cos(d) = (32400 - 4 d^2) / (32400 + d^2), |d| <= 90,      *)
(* which is exact at 0, 60 and 90 degrees.                                 *)
(***************************************************************************)
CosDeg(deg) ==
    LET sq == RMul(deg, deg)
    IN  RDiv(RSub(R(32400), RMul(R(4), sq)), RAdd(R(32400), sq))

(***************************************************************************)
(* MapCrossSection: derived quantities (the @property methods).  An extent *)
(* is a Python object [kind, val]: kind "list" (mutable, shared with the   *)
(* caller) or "tuple" (immutable); val is the sequence of its numbers.     *)
(***************************************************************************)
km_per_deg_lat == Frac(2778, 25)      \* 1.852 * 60.

lon_min(me) == me[1]
lon_max(me) == me[2]
lat_min(me) == me[3]
lat_max(me) == me[4]
depth_min(de) == de[1]
depth_max(de) == de[2]

km_per_deg_lon(me) ==
    RMul(km_per_deg_lat, CosDeg(RDiv(RAdd(lat_min(me), lat_max(me)), R(2))))

lonrange(me) == RSub(lon_max(me), lon_min(me))
latrange(me) == RSub(lat_max(me), lat_min(me))
depthrange(de) == RSub(de[2], de[1])
lonrange_km(me) == RMul(lonrange(me), km_per_deg_lon(me))
latrange_km(me) == RMul(latrange(me), km_per_deg_lat)
xrange_km(me, de) == RAdd(lonrange_km(me), depthrange(de))
yrange_km(me, de) == RAdd(latrange_km(me), depthrange(de))
\* x / y as numpy computes it: a zero divisor gives inf or nan
plot_aspect(me, de) == FDiv(xrange_km(me, de), yrange_km(me, de))

(***************************************************************************)
(* MapCrossSection._get_map_extent and _get_depth_extent.  The result is   *)
(* [status, ext]: status "ok" or the exception raised, ext the object      *)
(* returned (the caller's own object when an explicit extent is given).    *)
(***************************************************************************)
Truthy(obj) == obj.kind # "None" /\ Len(obj.val) > 0

\* variant: the buffer is a number of degrees, not a fraction of the range
_get_map_extent_AbsBuffer(map_extent, latitudes, longitudes, extent_buffer) ==
    IF Truthy(map_extent)
    THEN IF Len(map_extent.val) # 4
              \/ ~RGt(map_extent.val[2], map_extent.val[1])
              \/ ~RGt(map_extent.val[4], map_extent.val[3])
         THEN [status |-> "AssertionError", ext |-> NoneObj]
         ELSE [status |-> "ok", ext |-> map_extent]
    ELSE IF latitudes.kind = "None" \/ longitudes.kind = "None"
         THEN [status |-> "AssertionError", ext |-> NoneObj]
         ELSE IF Len(longitudes.val) = 0 \/ Len(latitudes.val) = 0
              THEN [status |-> "ValueError", ext |-> NoneObj]
              ELSE [status |-> "ok",
                    ext |-> [kind |-> "tuple",
                             val |-> << RSub(SeqMin(longitudes.val), extent_buffer),
                                        RAdd(SeqMax(longitudes.val), extent_buffer),
                                        RSub(SeqMin(latitudes.val), extent_buffer),
                                        RAdd(SeqMax(latitudes.val), extent_buffer) >>]]

_get_map_extent(map_extent, latitudes, longitudes, extent_buffer) ==
    IF Truthy(map_extent)
    THEN IF Len(map_extent.val) # 4
              \/ ~RGt(map_extent.val[2], map_extent.val[1])
              \/ ~RGt(map_extent.val[4], map_extent.val[3])
         THEN [status |-> "AssertionError", ext |-> NoneObj]
         ELSE [status |-> "ok", ext |-> map_extent]
    ELSE IF latitudes.kind = "None" \/ longitudes.kind = "None"
         THEN [status |-> "AssertionError", ext |-> NoneObj]
         ELSE IF Len(longitudes.val) = 0 \/ Len(latitudes.val) = 0
              THEN [status |-> "ValueError", ext |-> NoneObj]   \* min([])
              ELSE LET lon_min0 == SeqMin(longitudes.val)
                       lon_max0 == SeqMax(longitudes.val)
                       lat_min0 == SeqMin(latitudes.val)
                       lat_max0 == SeqMax(latitudes.val)
                       lon_buffer == RMul(RSub(lon_max0, lon_min0), extent_buffer)
                       lat_buffer == RMul(RSub(lat_max0, lat_min0), extent_buffer)
                   IN  [status |-> "ok",
                        ext |-> [kind |-> "tuple",
                                 val |-> << RSub(lon_min0, lon_buffer),
                                            RAdd(lon_max0, lon_buffer),
                                            RSub(lat_min0, lat_buffer),
                                            RAdd(lat_max0, lat_buffer) >>]]

_get_depth_extent(depth_extent, depths, extent_buffer) ==
    IF Truthy(depth_extent)
    THEN IF ~RGt(depth_extent.val[2], depth_extent.val[1])
         THEN [status |-> "AssertionError", ext |-> NoneObj]
         ELSE [status |-> "ok", ext |-> depth_extent]
    ELSE IF depths.kind = "None"
         THEN [status |-> "AssertionError", ext |-> NoneObj]
         ELSE IF Len(depths.val) = 0
              THEN [status |-> "ValueError", ext |-> NoneObj]   \* min([])
              ELSE LET depth_min0 == SeqMin(depths.val)
                       depth_max0 == SeqMax(depths.val)
                       depth_buffer == RMul(RSub(depth_max0, depth_min0),
                                            extent_buffer)
                   IN  [status |-> "ok",
                        ext |-> [kind |-> "tuple",
                                 val |-> << RSub(depth_min0, depth_buffer),
                                            RAdd(depth_max0, depth_buffer) >>]]

(***************************************************************************)
(* MapCrossSection._adjustminmax: expands self.map_extent in place.  Item  *)
(* assignment to a tuple raises TypeError before anything is changed.      *)
(***************************************************************************)
ExpandLon(me, add_deg) ==
    << RSub(me[1], add_deg), RAdd(me[2], add_deg), me[3], me[4] >>

ExpandLat(me, add_deg) ==
    << me[1], me[2], RSub(me[3], add_deg), RAdd(me[4], add_deg) >>

_adjustminmax(map_extent, de, fig_aspect) ==
    IF map_extent.kind # "list"
    THEN [status |-> "TypeError", ext |-> map_extent]
    ELSE LET me == map_extent.val
         IN  IF RGt(fig_aspect, plot_aspect(me, de))      \* expand x_range
             THEN LET add_kms == RDiv(RSub(RMul(yrange_km(me, de), fig_aspect),
                                           xrange_km(me, de)), R(2))
                      add_deg == RDiv(add_kms, km_per_deg_lon(me))
                  IN  [status |-> "ok",
                       ext |-> [kind |-> "list", val |-> ExpandLon(me, add_deg)]]
             ELSE LET add_kms == RDiv(RSub(RDiv(xrange_km(me, de), fig_aspect),
                                           yrange_km(me, de)), R(2))
                      add_deg == RDiv(add_kms, km_per_deg_lat)
                  IN  [status |-> "ok",
                       ext |-> [kind |-> "list", val |-> ExpandLat(me, add_deg)]]

(***************************************************************************)
(* MapCrossSection._make_rects.  fig_inches is what fig.get_size_inches()  *)
(* returns, pad the four paddings in inches.  The parts of the method:     *)
(*   ScaleFactors  the two inch-per-km factors and their adjustment        *)
(*   AxesRects     the three rectangles [left, bottom, width, height]      *)
(***************************************************************************)
\* variant: each branch enlarges the other factor
ScaleFactors_Swapped(fig_xrange, fig_yrange, xr_km, yr_km, p_aspect, fig_aspect) ==
    LET inch_per_km_x == FDiv(fig_xrange, xr_km)
        inch_per_km_y == FDiv(fig_yrange, yr_km)
    IN  IF ~IsFinite(p_aspect)
        THEN << inch_per_km_x, NonFinite >>
        ELSE IF RGt(p_aspect, fig_aspect)
             THEN << FMul(inch_per_km_x, FDiv(p_aspect, fig_aspect)),
                     inch_per_km_y >>
             ELSE IF RLt(p_aspect, fig_aspect)
                  THEN << inch_per_km_x,
                          FMul(inch_per_km_y, FDiv(fig_aspect, p_aspect)) >>
                  ELSE << inch_per_km_x, inch_per_km_y >>

\* variant: the factors are left as first computed
ScaleFactors_Unadjusted(fig_xrange, fig_yrange, xr_km, yr_km, p_aspect, fig_aspect) ==
    LET inch_per_km_x == FDiv(fig_xrange, xr_km)
        inch_per_km_y == FDiv(fig_yrange, yr_km)
    IN  IF ~IsFinite(p_aspect)
        THEN << inch_per_km_x, NonFinite >>
        ELSE << inch_per_km_x, inch_per_km_y >>

ScaleFactors(fig_xrange, fig_yrange, xr_km, yr_km, p_aspect, fig_aspect) ==
    LET inch_per_km_x == FDiv(fig_xrange, xr_km)
        inch_per_km_y == FDiv(fig_yrange, yr_km)
    IN  IF ~IsFinite(p_aspect)
        THEN << inch_per_km_x, NonFinite >>
        ELSE IF RGt(p_aspect, fig_aspect)
             THEN << inch_per_km_x,
                     FMul(inch_per_km_y, FDiv(fig_aspect, p_aspect)) >>
             ELSE IF RLt(p_aspect, fig_aspect)
                  THEN << FMul(inch_per_km_x, FDiv(p_aspect, fig_aspect)),
                          inch_per_km_y >>
                  ELSE << inch_per_km_x, inch_per_km_y >>

\* variant: the lower strip takes the depth width
AxesRects_StripWidth(me, de, pad, fig_inches, inch_per_km_x, inch_per_km_y) ==
    LET left_width == FDiv(FMul(lonrange_km(me), inch_per_km_x), fig_inches[1])
        right_width == FDiv(FMul(depthrange(de), inch_per_km_x), fig_inches[1])
        lower_height == FDiv(FMul(depthrange(de), inch_per_km_y), fig_inches[2])
        upper_height == FDiv(FMul(latrange_km(me), inch_per_km_y), fig_inches[2])
        left_left == RDiv(pad.left, fig_inches[1])
        right_left == FAdd(left_left, left_width)
        lower_bottom == RDiv(pad.bottom, fig_inches[2])
        upper_bottom == FAdd(lower_bottom, lower_height)
    IN  [rect_map |-> << left_left, upper_bottom, left_width, upper_height >>,
         rect_xz |-> << left_left, lower_bottom, right_width, lower_height >>,
         rect_zy |-> << right_left, upper_bottom, right_width, upper_height >>]

\* variant: the upper row starts at the bottom padding
AxesRects_NoOffset(me, de, pad, fig_inches, inch_per_km_x, inch_per_km_y) ==
    LET left_width == FDiv(FMul(lonrange_km(me), inch_per_km_x), fig_inches[1])
        right_width == FDiv(FMul(depthrange(de), inch_per_km_x), fig_inches[1])
        lower_height == FDiv(FMul(depthrange(de), inch_per_km_y), fig_inches[2])
        upper_height == FDiv(FMul(latrange_km(me), inch_per_km_y), fig_inches[2])
        left_left == RDiv(pad.left, fig_inches[1])
        right_left == FAdd(left_left, left_width)
        lower_bottom == RDiv(pad.bottom, fig_inches[2])
        upper_bottom == lower_bottom
    IN  [rect_map |-> << left_left, upper_bottom, left_width, upper_height >>,
         rect_xz |-> << left_left, lower_bottom, left_width, lower_height >>,
         rect_zy |-> << right_left, upper_bottom, right_width, upper_height >>]

AxesRects(me, de, pad, fig_inches, inch_per_km_x, inch_per_km_y) ==
    LET left_width == FDiv(FMul(lonrange_km(me), inch_per_km_x), fig_inches[1])
        right_width == FDiv(FMul(depthrange(de), inch_per_km_x), fig_inches[1])
        lower_height == FDiv(FMul(depthrange(de), inch_per_km_y), fig_inches[2])
        upper_height == FDiv(FMul(latrange_km(me), inch_per_km_y), fig_inches[2])
        left_left == RDiv(pad.left, fig_inches[1])
        right_left == FAdd(left_left, left_width)
        lower_bottom == RDiv(pad.bottom, fig_inches[2])
        upper_bottom == FAdd(lower_bottom, lower_height)
    IN  [rect_map |-> << left_left, upper_bottom, left_width, upper_height >>,
         rect_xz |-> << left_left, lower_bottom, left_width, lower_height >>,
         rect_zy |-> << right_left, upper_bottom, right_width, upper_height >>]

NoRects == [rect_map |-> << >>, rect_xz |-> << >>, rect_zy |-> << >>]

\* lines 235-249: the rectangles, for the scale factors ipk; nothing is
\* laid out when _adjustminmax raised
MakeRectsLaidOut(adj, de, pad, fig_inches, fig_xrange, fig_yrange, ipk) ==
    IF adj.status # "ok"
    THEN [status |-> adj.status, map_extent |-> adj.ext, rects |-> NoRects,
          inch_per_km_x |-> NonFinite, inch_per_km_y |-> NonFinite,
          fig_xrange |-> fig_xrange, fig_yrange |-> fig_yrange]
    ELSE [status |-> "ok", map_extent |-> adj.ext,
          rects |-> AxesRects(adj.ext.val, de, pad, fig_inches, ipk[1], ipk[2]),
          inch_per_km_x |-> ipk[1], inch_per_km_y |-> ipk[2],
          fig_xrange |-> fig_xrange, fig_yrange |-> fig_yrange]

\* lines 228-249: adj is the outcome of lines 224-226, the map extent
\* after self._adjustminmax(fig_aspect) if fill_figure
MakeRectsScaled(adj, de, pad, fig_inches, fig_xrange, fig_yrange) ==
    MakeRectsLaidOut(adj, de, pad, fig_inches, fig_xrange, fig_yrange,
        ScaleFactors(fig_xrange, fig_yrange, xrange_km(adj.ext.val, de),
                     yrange_km(adj.ext.val, de), plot_aspect(adj.ext.val, de),
                     RDiv(fig_xrange, fig_yrange)))

\* lines 224-249, for the usable width and height of the figure
MakeRectsInArea(map_extent, de, pad, fig_inches, fill_figure, fig_xrange, fig_yrange) ==
    MakeRectsScaled(
        IF fill_figure
        THEN _adjustminmax(map_extent, de, RDiv(fig_xrange, fig_yrange))
        ELSE [status |-> "ok", ext |-> map_extent],
        de, pad, fig_inches, fig_xrange, fig_yrange)

_make_rects(map_extent, de, pad, fig_inches, fill_figure) ==
    MakeRectsInArea(map_extent, de, pad, fig_inches, fill_figure,
                    RSub(RSub(fig_inches[1], pad.left), pad.right),
                    RSub(RSub(fig_inches[2], pad.top), pad.bottom))

(***************************************************************************)
(* MapCrossSection.__init__.  a is the record of its arguments, fig_inches *)
(* the size of the figure plt.figure() hands back.  The result holds the   *)
(* object's fields and what the constructor did: the exception raised (or  *)
(* "ok"), the lines printed, whether _make_rects was entered and with      *)
(* which extents, the axes created and the coastline feature drawn.        *)
(***************************************************************************)
NE_coast_resolutions == {"10m", "50m", "110m"}
GSHSS_coast_resolutions == {"auto", "coarse", "low", "intermediate", "high", "full"}

NoCoast == [feature |-> "None", resolution |-> "None"]

\* lines 83-87: the coastline feature added to ax_map
DrawCoast(coastlines) ==
    IF coastlines \in GSHSS_coast_resolutions
    THEN [feature |-> "GSHHS", resolution |-> coastlines]
    ELSE IF coastlines \in NE_coast_resolutions
         THEN [feature |-> "NaturalEarth", resolution |-> "10m"]
         ELSE NoCoast

\* lines 55-61: self.coastlines and the number of lines printed
CheckCoast(coastlines) ==
    IF coastlines # "None"
    THEN IF coastlines \in NE_coast_resolutions
              \/ coastlines \in GSHSS_coast_resolutions
         THEN [coastlines |-> coastlines, printed |-> 0]
         ELSE [coastlines |-> "None", printed |-> 1]
    ELSE [coastlines |-> "None", printed |-> 0]

\* the object when the constructor raises before _make_rects
Unbuilt(a) ==
    [status |-> "ok", map_extent |-> NoneObj, depth_extent |-> NoneObj,
     coastlines |-> "None", printed |-> 0, entered |-> FALSE,
     entry_map_extent |-> << >>, entry_depth_extent |-> << >>,
     rects |-> NoRects, inch_per_km_x |-> NonFinite,
     inch_per_km_y |-> NonFinite, fig_xrange |-> R(0), fig_yrange |-> R(0),
     fig_inches |-> a.fig_inches, pad |-> a.pad,
     fill_figure |-> a.fill_figure, axes |-> {}, coast_drawn |-> NoCoast]

\* lines 64-93: r is what _make_rects did; on success the three axes are
\* created and the coastline drawn
Built(a, m, d, c, r) ==
    IF r.status # "ok"
    THEN [Unbuilt(a) EXCEPT
              !.status = r.status, !.map_extent = r.map_extent,
              !.depth_extent = d.ext, !.coastlines = c.coastlines,
              !.printed = c.printed, !.entered = TRUE,
              !.entry_map_extent = m.ext.val,
              !.entry_depth_extent = d.ext.val,
              !.fig_xrange = r.fig_xrange, !.fig_yrange = r.fig_yrange]
    ELSE [Unbuilt(a) EXCEPT
              !.map_extent = r.map_extent,
              !.depth_extent = d.ext, !.coastlines = c.coastlines,
              !.printed = c.printed, !.entered = TRUE,
              !.entry_map_extent = m.ext.val,
              !.entry_depth_extent = d.ext.val,
              !.fig_xrange = r.fig_xrange, !.fig_yrange = r.fig_yrange,
              !.rects = r.rects,
              !.inch_per_km_x = r.inch_per_km_x,
              !.inch_per_km_y = r.inch_per_km_y,
              !.axes = {"ax_xz", "ax_zy", "ax_map"},
              !.coast_drawn = DrawCoast(c.coastlines)]

\* lines 46-93: m and d are the outcomes of _get_map_extent and
\* _get_depth_extent, c that of the coastlines check
Extents(a, m, d, c) ==
    IF m.status # "ok"
    THEN [Unbuilt(a) EXCEPT !.status = m.status]
    ELSE IF d.status # "ok"
         THEN [Unbuilt(a) EXCEPT !.status = d.status, !.map_extent = m.ext]
         ELSE Built(a, m, d, c,
                    _make_rects(m.ext, d.ext.val, a.pad, a.fig_inches,
                                a.fill_figure))

MapCrossSection(a) ==
    Extents(a,
            _get_map_extent(a.map_extent, a.latitudes, a.longitudes,
                            a.extent_buffer),
            _get_depth_extent(a.depth_extent, a.depths, a.extent_buffer),
            CheckCoast(a.coastlines))

(***************************************************************************)
(* shape_selection.py.  A Polygon holds the caller's vertex list itself    *)
(* (self.polygon = polygon), a sequence of << lon, lat >>.                 *)
(* Path.contains_point is the even-odd crossing test of the closed path.   *)
(***************************************************************************)
EdgeCrosses(v1, v2, px, py) ==
    /\ RGt(v1[2], py) # RGt(v2[2], py)
    /\ RLt(px, RAdd(v1[1], RDiv(RMul(RSub(py, v1[2]), RSub(v2[1], v1[1])),
                                RSub(v2[2], v1[2]))))

PolygonContains(polygon, event_longitude, event_latitude) ==
    LET n == Len(polygon)
        crossing == {i \in 1..n :
                        EdgeCrosses(polygon[i], polygon[(i % n) + 1],
                                    event_longitude, event_latitude)}
    IN  Cardinality(crossing) % 2 = 1

\* Polygon.plot: closes the vertex list in place, then draws the outline
PolygonPlot(polygon) ==
    IF polygon[1] # polygon[Len(polygon)]
    THEN Append(polygon, polygon[1])
    ELSE polygon

\* Circle.__init__(longitude, latitude, radius)
Circle(longitude, latitude, radius) ==
    [kind |-> "Circle", longitude |-> longitude, latitude |-> latitude,
     radius |-> radius]

\* Polygon.__init__(polygon)
Polygon(polygon) == [kind |-> "Polygon", polygon |-> polygon]

\* one degree of longitude on the equator of the WGS84 ellipsoid, in
\* metres (6378137 * pi / 180, to the centimetre)
EquatorMetresPerDeg == Frac(11131949, 100)
\* Circle.contains divides the distance by 1852 * 60
MetresPerDegLat == R(111120)

\* gps2dist_azimuth(lat1, lon1, lat2, lon2)[0] for two points on the
\* equator less than half a turn apart: the geodesic is the equator's
\* arc.  Other pairs of points are not modelled.
gps2dist_azimuth(lat1, lon1, lat2, lon2) ==
    CASE RIsZero(lat1) /\ RIsZero(lat2) ->
        IF RLt(lon1, lon2)
        THEN RMul(RSub(lon2, lon1), EquatorMetresPerDeg)
        ELSE RMul(RSub(lon1, lon2), EquatorMetresPerDeg)

CircleContains(self, event_longitude, event_latitude) ==
    RLe(RDiv(gps2dist_azimuth(event_latitude, event_longitude,
                              self.latitude, self.longitude),
             MetresPerDegLat),
        self.radius)

\* shape.contains(longitude, latitude)
Contains(shape, event_longitude, event_latitude) ==
    IF shape.kind = "Circle"
    THEN CircleContains(shape, event_longitude, event_latitude)
    ELSE PolygonContains(shape.polygon, event_longitude, event_latitude)

\* event.preferred_origin()
preferred_origin(event) == event.origins[event.preferred]

\* ShapeSelection.include: a new catalog, events appended in turn
RECURSIVE include(_, _)
include(shape, catalog) ==
    IF Len(catalog) = 0
    THEN << >>
    ELSE IF Contains(shape, preferred_origin(catalog[1]).longitude,
                     preferred_origin(catalog[1]).latitude)
         THEN << catalog[1] >> \o include(shape, Tail(catalog))
         ELSE include(shape, Tail(catalog))

\* ShapeSelection.exclude
RECURSIVE exclude(_, _)
\* variant: nothing is left out
exclude_Whole(shape, catalog) == catalog

exclude(shape, catalog) ==
    IF Len(catalog) = 0
    THEN << >>
    ELSE IF ~Contains(shape, preferred_origin(catalog[1]).longitude,
                      preferred_origin(catalog[1]).latitude)
         THEN << catalog[1] >> \o exclude(shape, Tail(catalog))
         ELSE exclude(shape, Tail(catalog))

(***************************************************************************)
(* Text.  A str is a sequence of one-character strings.                    *)
(***************************************************************************)
Upper(c) ==
    CASE c = "h" -> "H" [] c = "y" -> "Y" [] c = "p" -> "P" [] c = "o" -> "O"
      [] c = "d" -> "D" [] c = "n" -> "N" [] c = "l" -> "L" [] c = "c" -> "C"
      [] c = "s" -> "S" [] c = "m" -> "M" [] c = "i" -> "I"
      [] OTHER -> c

StrUpper(s) == [i \in 1..Len(s) |-> Upper(s[i])]

\* sub in s
StrIn(sub, s) ==
    \E k \in 0..(Len(s) - Len(sub)) :
        \A i \in 1..Len(sub) : s[k + i] = sub[i]

\* s.split(":")[-1]
RECURSIVE LastField(_)
LastField(s) ==
    IF \A i \in 1..Len(s) : s[i] # ":"
    THEN s
    ELSE LastField(Tail(s))

IsSpace(c) == c \in {" ", "\t", "\n"}
Digits == {"0", "1", "2", "3", "4", "5", "6", "7", "8", "9"}
DigitVal(c) ==
    CASE c = "0" -> 0 [] c = "1" -> 1 [] c = "2" -> 2 [] c = "3" -> 3
      [] c = "4" -> 4 [] c = "5" -> 5 [] c = "6" -> 6 [] c = "7" -> 7
      [] c = "8" -> 8 [] c = "9" -> 9

RECURSIVE Strip(_)
Strip(s) ==
    IF Len(s) = 0 THEN s
    ELSE IF IsSpace(s[1]) THEN Strip(Tail(s))
    ELSE IF IsSpace(s[Len(s)]) THEN Strip(SubSeq(s, 1, Len(s) - 1))
    ELSE s

RECURSIVE DigitsValue(_, _)
DigitsValue(s, acc) ==
    IF Len(s) = 0 THEN acc ELSE DigitsValue(Tail(s), 10 * acc + DigitVal(s[1]))

\* int(s): [ok, value]; ok is FALSE where Python raises ValueError
ParseInt(s) ==
    LET t == Strip(s)
        signed == Len(t) > 0 /\ t[1] \in {"+", "-"}
        body == IF signed THEN Tail(t) ELSE t
    IN  IF Len(body) = 0 \/ \E i \in 1..Len(body) : body[i] \notin Digits
        THEN [ok |-> FALSE, value |-> 0]
        ELSE [ok |-> TRUE,
              value |-> IF signed /\ t[1] = "-"
                        THEN -DigitsValue(body, 0)
                        ELSE DigitsValue(body, 0)]

(***************************************************************************)
(* hypodd_plotter.py.  An event is [origins, mag]; an origin is            *)
(* [longitude, latitude, depth, method_id, comments]: depth in metres,     *)
(* method_id and each comment's text a str (the empty str for None).       *)
(* preferred is the index of the origin preferred_origin() refers to.      *)
(***************************************************************************)
FirstOrigin(event) == event.origins[1]                    \* origins[0]
LastOrigin(event) == event.origins[Len(event.origins)]    \* origins[-1]

ListOf(seq) == [kind |-> "list", val |-> seq]

_extract_positions(cat) ==
    [original |->
        [latitudes |-> [i \in 1..Len(cat) |-> FirstOrigin(cat[i]).latitude],
         longitudes |-> [i \in 1..Len(cat) |-> FirstOrigin(cat[i]).longitude],
         depths |-> [i \in 1..Len(cat) |->
                        RDiv(FirstOrigin(cat[i]).depth, R(1000))]],
     relocated |->
        [latitudes |-> [i \in 1..Len(cat) |-> LastOrigin(cat[i]).latitude],
         longitudes |-> [i \in 1..Len(cat) |-> LastOrigin(cat[i]).longitude],
         depths |-> [i \in 1..Len(cat) |->
                        RDiv(LastOrigin(cat[i]).depth, R(1000))]]]

\* ColorConverter().to_rgba("grey")
color_invalid == [cmap |-> "grey", index |-> 0]
PaletteSize == 12
\* get_cmap("Paired", 12)(i): an index outside 0..11 takes the colormap's
\* under or over colour, which are its first and last entries
cmap(i) ==
    [cmap |-> "Paired",
     index |-> IF i < 0 THEN 0 ELSE IF i > PaletteSize - 1 THEN PaletteSize - 1
               ELSE i]

HYPODD == << "H", "Y", "P", "O", "D", "D" >>
ClusterTag == << "H", "y", "p", "o", "D", "D", " ", "c", "l", "u", "s", "t",
                 "e", "r", " ", "i", "d" >>

\* lines 175-181: the for ... else over the origin's comments
RECURSIVE ClusterId(_)
ClusterId(comments) ==
    IF Len(comments) = 0
    THEN [ok |-> TRUE, value |-> 0]
    ELSE IF Len(comments[1]) > 0 /\ StrIn(ClusterTag, comments[1])
         THEN ParseInt(LastField(comments[1]))
         ELSE ClusterId(Tail(comments))

\* lines 170-182: the colour of one event, or ValueError
EventColor(event) ==
    LET origin == LastOrigin(event)
    IN  IF Len(origin.method_id) = 0
           \/ ~StrIn(HYPODD, StrUpper(origin.method_id))
        THEN [ok |-> TRUE, color |-> color_invalid]
        ELSE LET cluster_id == ClusterId(origin.comments)
             IN  IF cluster_id.ok
                 THEN [ok |-> TRUE, color |-> cmap(cluster_id.value)]
                 ELSE [ok |-> FALSE, color |-> color_invalid]

\* lines 183-187
EventInShape(event, shape) ==
    IF shape.kind = "None"
    THEN TRUE
    ELSE PolygonContains(shape.polygon, LastOrigin(event).longitude,
                         LastOrigin(event).latitude)

RECURSIVE SetPlotParamsLoop(_, _, _)
SetPlotParamsLoop(cat, shape, acc) ==
    IF Len(cat) = 0
    THEN acc
    ELSE LET event == cat[1]
             c == EventColor(event)
             mags == Append(acc.magnitudes, event.mag)
         IN  IF ~c.ok
             THEN [acc EXCEPT !.status = "ValueError", !.magnitudes = mags]
             ELSE SetPlotParamsLoop(Tail(cat), shape,
                      [acc EXCEPT !.magnitudes = mags,
                                  !.colors = Append(acc.colors, c.color),
                                  !.inshape = Append(acc.inshape,
                                                     EventInShape(event, shape))])

_set_plot_params(cat, shape) ==
    SetPlotParamsLoop(cat, shape,
        [status |-> "ok", colors |-> << >>, magnitudes |-> << >>,
         inshape |-> << >>])

\* [x for i, x in zip(inshape, xs) if i is True]
RECURSIVE ZipSelect(_, _)
ZipSelect(inshape, xs) ==
    IF Len(inshape) = 0 \/ Len(xs) = 0
    THEN << >>
    ELSE IF inshape[1]
         THEN << xs[1] >> \o ZipSelect(Tail(inshape), Tail(xs))
         ELSE ZipSelect(Tail(inshape), Tail(xs))

\* The two layers one panel receives: layer1 the points << x, y >> of the
\* first ax.scatter / ax.plot call, layer2 the points and colours of the
\* second
_plot_2D(xs, ys, inshape, colors, replace_scatter_with_plot) ==
    LET xin == ZipSelect(inshape, xs)
        yin == ZipSelect(inshape, ys)
        cin == ZipSelect(inshape, colors)
    IN  [layer1 |-> [i \in 1..Len(xs) |-> << xs[i], ys[i] >>],
         layer2 |-> [i \in 1..Len(xin) |-> << xin[i], yin[i] >>],
         colors2 |-> IF replace_scatter_with_plot
                     THEN [i \in 1..Len(xin) |-> [cmap |-> "k", index |-> 0]]
                     ELSE cin]

\* matplotlib's default figure size in inches, rcParams["figure.figsize"]
DefaultFigInches == << Frac(32, 5), Frac(24, 5) >>
\* MapCrossSection.__init__'s default paddings and extent_buffer
DefaultPad == [left |-> Frac(3, 5), right |-> Frac(3, 5),
               top |-> Frac(2, 5), bottom |-> Frac(2, 5)]
DefaultBuffer == Frac(1, 5)

NoShape == [kind |-> "None", polygon |-> << >>]
NoPanel == [layer1 |-> << >>, layer2 |-> << >>, colors2 |-> << >>]
NoFigure == [map_extent |-> << >>, depth_extent |-> << >>, rects |-> NoRects,
             coast_drawn |-> NoCoast, printed |-> 0, outline |-> << >>,
             ax_map |-> NoPanel, ax_zy |-> NoPanel, ax_xz |-> NoPanel]

(***************************************************************************)
(* HypoDDPlotter._plot_events: one figure.  self is the plotter's fields,  *)
(* fig_inches the size of the figure pyplot creates.  The result gives the *)
(* exception raised (or "ok"), the two extent objects returned, the figure *)
(* drawn and the shape's vertex list after shape.plot.                     *)
(***************************************************************************)
\* lines 209-225: the figure drawn on the MapCrossSection mcs
PlotOn(self, positions, shape, mcs, closed) ==
    IF mcs.status # "ok"
    THEN [status |-> mcs.status, map_extent |-> NoneObj,
          depth_extent |-> NoneObj, figure |-> NoFigure,
          polygon |-> shape.polygon]
    ELSE [status |-> "ok", map_extent |-> mcs.map_extent,
          depth_extent |-> mcs.depth_extent,
          figure |->
              [map_extent |-> mcs.map_extent.val,
               depth_extent |-> mcs.depth_extent.val,
               rects |-> mcs.rects,
               coast_drawn |-> mcs.coast_drawn,
               printed |-> mcs.printed,
               outline |-> closed,
               ax_map |-> _plot_2D(positions.longitudes, positions.latitudes,
                                   self.inshape, self.colors,
                                   self.replace_scatter_with_plot),
               ax_zy |-> _plot_2D(positions.depths, positions.latitudes,
                                  self.inshape, self.colors,
                                  self.replace_scatter_with_plot),
               ax_xz |-> _plot_2D(positions.longitudes, positions.depths,
                                  self.inshape, self.colors,
                                  self.replace_scatter_with_plot)],
          polygon |-> closed]

_plot_events(self, positions, shape, map_extent, depth_extent, fig_inches) ==
    PlotOn(self, positions, shape,
           MapCrossSection(
               [fill_figure |-> FALSE, pad |-> DefaultPad,
                map_extent |-> map_extent, depth_extent |-> depth_extent,
                extent_buffer |-> DefaultBuffer,
                latitudes |-> ListOf(positions.latitudes),
                longitudes |-> ListOf(positions.longitudes),
                depths |-> ListOf(positions.depths),
                coastlines |-> self.coastlines,
                fig_inches |-> fig_inches]),
           IF shape.kind = "None" THEN shape.polygon
           ELSE PolygonPlot(shape.polygon))

(***************************************************************************)
(* Inputs of the model.                                                    *)
(***************************************************************************)
Str_hypodd == << "s", "m", "i", ":", "l", "o", "c", "a", "l", "/",
                 "h", "y", "p", "o", "d", "d" >>
Str_HypoDD == << "s", "m", "i", ":", "l", "o", "c", "a", "l", "/",
                 "H", "y", "p", "o", "D", "D" >>
Str_nlloc == << "s", "m", "i", ":", "l", "o", "c", "a", "l", "/",
                "n", "l", "l", "o", "c" >>
Str_other == << "r", "m", "s", ":", " ", "0", ".", "1" >>

Origin(lon, lat, depth, method_id, comments) ==
    [longitude |-> R(lon), latitude |-> R(lat), depth |-> R(depth),
     method_id |-> method_id, comments |-> comments]

\* not relocated: a single origin without method id
EvA == [origins |-> << Origin(10, 0, 10000, << >>, << >>) >>, mag |-> 2,
        preferred |-> 1]
\* relocated, cluster 3
EvB == [origins |-> << Origin(20, 60, 30000, << >>, << >>),
                       Origin(19, 60, 20000, Str_HypoDD,
                              << Str_other, ClusterTag \o << ":", " ", "3" >> >>) >>,
        mag |-> 3, preferred |-> 2]
\* relocated, cluster 13
EvC == [origins |-> << Origin(10, 60, 10000, << >>, << >>),
                       Origin(11, 60, 30000, Str_hypodd,
                              << ClusterTag \o << ":", " ", "1", "3" >> >>) >>,
        mag |-> 1, preferred |-> 1]
\* relocated, the cluster id does not parse
EvD == [origins |-> << Origin(20, 0, 30000, << >>, << >>),
                       Origin(20, 0, 30000, Str_HypoDD,
                              << ClusterTag \o << ":", " ", "n", "/", "a" >> >>) >>,
        mag |-> 2, preferred |-> 2]
\* relocated, no cluster id comment
EvE == [origins |-> << Origin(20, 0, 10000, Str_nlloc, << >>),
                       Origin(20, 0, 10000, Str_HypoDD, << Str_other >>) >>,
        mag |-> 4, preferred |-> 1]

EventPool == << EvA, EvB, EvC, EvD, EvE >>

\* the catalogs: the events of an index set of at most MaxEvents events,
\* in the order of the pool
RECURSIVE Pick(_, _)
Pick(idx, from) ==
    IF from > Len(EventPool) THEN << >>
    ELSE IF from \in idx THEN << EventPool[from] >> \o Pick(idx, from + 1)
    ELSE Pick(idx, from + 1)

Catalogs ==
    {Pick(idx, 1) : idx \in {x \in SUBSET (1..Len(EventPool)) :
                                Cardinality(x) <= MaxEvents}}

RPair(x, y) == << R(x), R(y) >>
\* the lists the caller holds and may pass as map_extent, depth_extent
CallerMapExtents == {<< R(9), R(11), R(59), R(61) >>}
CallerDepthExtents == {<< R(0), R(50) >>}
CallerPolygons == {<< RPair(5, -10), RPair(5, 30), RPair(15, 30), RPair(15, -10) >>}
\* extents passed as tuples
TupleMapExtents == {<< R(5), R(25), R(-10), R(70) >>,
                    << R(10), R(10), R(0), R(60) >>}
TupleDepthExtents == {<< R(0), R(50) >>}

\* figure sizes and paddings, in inches; the last leaves a negative width
WidePad == [left |-> Frac(1, 1), right |-> Frac(1, 5),
            top |-> Frac(3, 10), bottom |-> Frac(1, 2)]
Figures == {[fig_inches |-> DefaultFigInches, pad |-> DefaultPad],
            [fig_inches |-> << R(4), R(6) >>, pad |-> DefaultPad],
            [fig_inches |-> DefaultFigInches, pad |-> WidePad],
            [fig_inches |-> << R(1), Frac(24, 5) >>, pad |-> DefaultPad]}
Buffers == {R(0), DefaultBuffer}
CoastArgs == {"None", "50m", "high", "99z"}
PlotCoastArgs == {"None", "50m"}
\* catalogs whose original positions serve as latitudes, longitudes, depths
SampleCatalogs == {<< >>, << EvA >>, << EvA, EvC >>, << EvA, EvB >>}
FileBases == {"All"}
CircleArg == << R(10), R(0), R(1) >>
\* polygons and circles [lon, lat, radius] used to select events
SelectPolygons ==
    CallerPolygons
        \cup {<< RPair(15, -10), RPair(25, -10), RPair(25, 70), RPair(15, 70) >>}
SelectCircles == {CircleArg, << R(15), R(0), R(5) >>}

(***************************************************************************)
(* State.                                                                  *)
(*   caller   the lists the calling program holds: map_extent,             *)
(*            depth_extent and polygon (objects shared with the callee)    *)
(*   caller0  their values when the caller built them                      *)
(*   cat      the catalog given to HypoDDPlotter                           *)
(*   plotter  the fields of the HypoDDPlotter object                       *)
(*   figs     the figures saved by the last plot_events call, in order     *)
(*   call     the last call made: its arguments and its outcome            *)
(*   mcs      the MapCrossSection last constructed directly                *)
(*   ncalls   number of direct MapCrossSection constructions so far        *)
(*   sel      the shape last used to select events and the catalogs its    *)
(*            include and exclude returned                                 *)
(***************************************************************************)
VARIABLES caller, caller0, cat, plotter, figs, call, mcs, ncalls, sel

vars == << caller, caller0, cat, plotter, figs, call, mcs, ncalls, sel >>

NoArgs == [fill_figure |-> FALSE, pad |-> DefaultPad, map_extent |-> NoneObj,
           depth_extent |-> NoneObj, extent_buffer |-> DefaultBuffer,
           latitudes |-> NoneObj, longitudes |-> NoneObj, depths |-> NoneObj,
           coastlines |-> "None", fig_inches |-> DefaultFigInches]

NoCall == [op |-> "__init__", status |-> "ok", file_base |-> "None",
           circle |-> FALSE, polygon |-> FALSE, coastlines |-> "None",
           args |-> NoArgs]

\* no selection made yet
NotRun == [run |-> FALSE, catalog |-> << >>]
NoSel == [shape |-> NoShape, include |-> NotRun, exclude |-> NotRun]

\* no MapCrossSection constructed yet
NoMcs == [Unbuilt(NoArgs) EXCEPT !.status = "None"]

\* HypoDDPlotter.__init__: map_extent / depth_extent are the caller's lists
\* (given) or None; the caller gives both or neither
Init ==
    /\ caller \in [map_extent : CallerMapExtents,
                    depth_extent : CallerDepthExtents,
                    polygon : CallerPolygons]
    /\ caller0 = caller
    /\ cat \in Catalogs
    /\ plotter \in [map_extent_given : BOOLEAN, depth_extent_given : BOOLEAN,
                     coastlines : {"None"}, file_base : {"hypoDDpy"},
                     original_filename : {<< >>}, relocated_filename : {<< >>},
                     replace_scatter_with_plot : BOOLEAN,
                     colors : {<< >>}, magnitudes : {<< >>}, inshape : {<< >>},
                     marker_size : {0}]
    /\ plotter.map_extent_given = plotter.depth_extent_given
    /\ figs = << >>
    /\ call = NoCall
    /\ mcs = NoMcs
    /\ ncalls = 0
    /\ sel = NoSel

(***************************************************************************)
(* A direct construction MapCrossSection(...).  src tells how the extents  *)
(* are given: "list" the caller's lists, "tuple" tuples, "samples" None    *)
(* with the positions of a catalog as latitudes, longitudes, depths.       *)
(***************************************************************************)
Construct(src, tme, tde, samples, fill_figure, pad, extent_buffer, coastlines, fig_inches) ==
    LET pos == _extract_positions(samples).original
        a == [fill_figure |-> fill_figure, pad |-> pad,
              map_extent |->
                  IF src = "list" THEN ListOf(caller.map_extent)
                  ELSE IF src = "tuple" THEN [kind |-> "tuple", val |-> tme]
                  ELSE NoneObj,
              depth_extent |->
                  IF src = "list" THEN ListOf(caller.depth_extent)
                  ELSE IF src = "tuple" THEN [kind |-> "tuple", val |-> tde]
                  ELSE NoneObj,
              extent_buffer |-> extent_buffer,
              latitudes |-> IF src = "samples" THEN ListOf(pos.latitudes)
                            ELSE NoneObj,
              longitudes |-> IF src = "samples" THEN ListOf(pos.longitudes)
                             ELSE NoneObj,
              depths |-> IF src = "samples" THEN ListOf(pos.depths)
                         ELSE NoneObj,
              coastlines |-> coastlines, fig_inches |-> fig_inches]
    IN  /\ ncalls < MaxCalls
        /\ ncalls' = ncalls + 1
        /\ \E m \in {MapCrossSection(a)} :
              /\ mcs' = m
              /\ call' = [NoCall EXCEPT !.op = "MapCrossSection",
                                        !.status = m.status, !.args = a]
              /\ caller' = IF src = "list" /\ m.map_extent.kind = "list"
                           THEN [caller EXCEPT !.map_extent = m.map_extent.val]
                           ELSE caller
        /\ UNCHANGED << caller0, cat, plotter, figs, sel >>

(***************************************************************************)
(* HypoDDPlotter.plot_events(file_base, circle, polygon, coastlines), with *)
(* _plot_original_relocated inlined.  circle: whether [lon, lat, radius]   *)
(* is passed; polygon: whether the caller's vertex list is passed.         *)
(* Circle(circle) passes one argument to Circle.__init__, which takes      *)
(* three: TypeError.                                                       *)
(***************************************************************************)
Filename(file_base, suffix) == << file_base, suffix >>

PlotEvents(file_base, circle, polygon, coastlines, fig_inches) ==
    LET self1 == [plotter EXCEPT
                      !.coastlines = IF coastlines # "None" THEN coastlines
                                     ELSE @,
                      !.file_base = file_base]
        shape == IF polygon
                 THEN [kind |-> "Polygon", polygon |-> caller.polygon]
                 ELSE NoShape
        original_filename == Filename(file_base, "_original.pdf")
        relocated_filename == Filename(file_base, "_relocated.pdf")
        done(status, self, saved, poly) ==
            /\ plotter' = self
            /\ figs' = saved
            /\ call' = [NoCall EXCEPT !.op = "plot_events", !.status = status,
                                      !.file_base = file_base,
                                      !.circle = circle, !.polygon = polygon,
                                      !.coastlines = coastlines,
                                      !.args.fig_inches = fig_inches]
            /\ caller' = IF polygon THEN [caller EXCEPT !.polygon = poly]
                         ELSE caller
    IN  /\ IF circle
           THEN done("TypeError", self1, << >>, caller.polygon)
           ELSE \* _plot_original_relocated
                \E pos \in {_extract_positions(cat)},
                   pp \in {_set_plot_params(cat, shape)} :
                  \E self2 \in {[self1 EXCEPT
                                     !.original_filename = original_filename,
                                     !.relocated_filename = relocated_filename,
                                     !.colors = pp.colors,
                                     !.magnitudes = pp.magnitudes,
                                     !.inshape = pp.inshape]} :
                    IF pp.status # "ok"
                    THEN done(pp.status, self2, << >>, caller.polygon)
                    ELSE \E self3 \in {[self2 EXCEPT !.marker_size = 1]} :
                           \E first \in {_plot_events(self3, pos.original, shape,
                                             IF plotter.map_extent_given
                                             THEN ListOf(caller.map_extent)
                                             ELSE NoneObj,
                                             IF plotter.depth_extent_given
                                             THEN ListOf(caller.depth_extent)
                                             ELSE NoneObj,
                                             fig_inches)} :
                             IF first.status # "ok"
                             THEN done(first.status, self3, << >>,
                                       caller.polygon)
                             ELSE \E second \in {_plot_events(self3,
                                                      pos.relocated,
                                                      [shape EXCEPT !.polygon = first.polygon],
                                                      first.map_extent,
                                                      first.depth_extent,
                                                      fig_inches)} :
                                    IF second.status # "ok"
                                    THEN done(second.status, self3,
                                              << [filename |-> original_filename,
                                                  figure |-> first.figure] >>,
                                              first.polygon)
                                    ELSE done("ok", self3,
                                              << [filename |-> original_filename,
                                                  figure |-> first.figure],
                                                 [filename |-> relocated_filename,
                                                  figure |-> second.figure] >>,
                                              second.polygon)
        /\ UNCHANGED << caller0, cat, mcs, ncalls, sel >>

(***************************************************************************)
(* shape.include(cat) and shape.exclude(cat) called on a shape the caller  *)
(* built.  sel keeps the results obtained with the same shape.             *)
(***************************************************************************)
Include(shape) ==
    /\ sel' = [shape |-> shape,
               include |-> [run |-> TRUE, catalog |-> include(shape, cat)],
               exclude |-> IF sel.shape = shape THEN sel.exclude ELSE NotRun]
    /\ UNCHANGED << caller, caller0, cat, plotter, figs, call, mcs, ncalls >>

Exclude(shape) ==
    /\ sel' = [shape |-> shape,
               include |-> IF sel.shape = shape THEN sel.include ELSE NotRun,
               exclude |-> [run |-> TRUE, catalog |-> exclude(shape, cat)]]
    /\ UNCHANGED << caller, caller0, cat, plotter, figs, call, mcs, ncalls >>

(***************************************************************************)
(* Specifications.  SpecLayout: a caller constructing MapCrossSection      *)
(* objects.  SpecPlot: a caller using one HypoDDPlotter.  SpecSelect: a    *)
(* caller selecting events of a catalog with a shape.                      *)
(***************************************************************************)
ConstructStep ==
    \E src \in {"list", "tuple", "samples"} :
      \E tme \in IF src = "tuple" THEN TupleMapExtents ELSE {<< >>},
         tde \in IF src = "tuple" THEN TupleDepthExtents ELSE {<< >>},
         samples \in IF src = "samples" THEN SampleCatalogs ELSE {<< >>},
         extent_buffer \in IF src = "samples" THEN Buffers ELSE {DefaultBuffer},
         fill_figure \in BOOLEAN, f \in Figures, coastlines \in CoastArgs :
          Construct(src, tme, tde, samples, fill_figure, f.pad, extent_buffer,
                    coastlines, f.fig_inches)

PlotEventsStep ==
    \E file_base \in FileBases, circle \in BOOLEAN, polygon \in BOOLEAN,
       coastlines \in PlotCoastArgs, fig_inches \in {DefaultFigInches} :
        PlotEvents(file_base, circle, polygon, coastlines, fig_inches)

InitLayout ==
    /\ Init
    /\ cat = << >>
    /\ plotter.map_extent_given /\ plotter.depth_extent_given
    /\ ~plotter.replace_scatter_with_plot

NextLayout == ConstructStep
SpecLayout == InitLayout /\ [][NextLayout]_vars

NextPlot == PlotEventsStep
SpecPlot == Init /\ [][NextPlot]_vars

\* the shapes of the caller; the distance of Circle.contains is modelled
\* on the equator, so a Circle goes with events located there
OnEquator(catalog) ==
    \A i \in 1..Len(catalog) : RIsZero(preferred_origin(catalog[i]).latitude)

Shapes ==
    {Polygon(p) : p \in SelectPolygons}
        \cup (IF OnEquator(cat)
               THEN {Circle(c[1], c[2], c[3]) : c \in SelectCircles}
               ELSE {})

IncludeStep == \E shape \in Shapes : Include(shape)
ExcludeStep == \E shape \in Shapes : Exclude(shape)

InitSelect ==
    /\ Init
    /\ plotter.map_extent_given /\ plotter.depth_extent_given
    /\ ~plotter.replace_scatter_with_plot

NextSelect == IncludeStep \/ ExcludeStep
SpecSelect == InitSelect /\ [][NextSelect]_vars

(***************************************************************************)
(* Properties of the layout (SpecLayout).                                  *)
(***************************************************************************)
Positive(a) == IsFinite(a) /\ RGt(a, R(0))

\* the constructor returned, so _make_rects returned its three rectangles
Returned == call.op = "MapCrossSection" /\ mcs.status = "ok"

\* _make_rects was entered with a valid map extent and depth extent
ValidExtents ==
    /\ mcs.entered
    /\ Positive(lonrange(mcs.entry_map_extent))
    /\ Positive(latrange(mcs.entry_map_extent))
    /\ Positive(depthrange(mcs.entry_depth_extent))

\* the figure leaves a usable drawing area
ValidFigure == Positive(mcs.fig_xrange) /\ Positive(mcs.fig_yrange)

ValidLayout == Returned /\ ValidExtents /\ ValidFigure

FigAspect == RDiv(mcs.fig_xrange, mcs.fig_yrange)
EntryAspect == plot_aspect(mcs.entry_map_extent, mcs.entry_depth_extent)

\* C1: the rectangles _make_rects returns for a valid layout are aligned:
\* the lower strip rect_xz has the map's left and width, the right strip
\* rect_zy has the map's bottom and height.
C1_Aligned ==
    ValidLayout =>
        /\ mcs.rects.rect_xz[1] = mcs.rects.rect_map[1]
        /\ mcs.rects.rect_xz[3] = mcs.rects.rect_map[3]
        /\ mcs.rects.rect_zy[2] = mcs.rects.rect_map[2]
        /\ mcs.rects.rect_zy[4] = mcs.rects.rect_map[4]

C1_Witness ==
    /\ ValidLayout
    /\ mcs.fill_figure
    /\ mcs.map_extent.val # mcs.entry_map_extent
    /\ Positive(mcs.rects.rect_map[3]) /\ Positive(mcs.rects.rect_map[4])

\* the interiors of two rectangles [left, bottom, width, height] are disjoint
Disjoint(a, b) ==
    \/ RLe(RAdd(a[1], a[3]), b[1])
    \/ RLe(RAdd(b[1], b[3]), a[1])
    \/ RLe(RAdd(a[2], a[4]), b[2])
    \/ RLe(RAdd(b[2], b[4]), a[2])

ProperRect(a) == \A i \in 1..4 : IsFinite(a[i]) /\ (i > 2 => Positive(a[i]))

\* C2: for a valid layout no two of the three rectangles overlap (their
\* interiors are pairwise disjoint), fill_figure on or off.
C2_NoOverlap ==
    ValidLayout =>
        /\ ProperRect(mcs.rects.rect_map)
        /\ ProperRect(mcs.rects.rect_xz)
        /\ ProperRect(mcs.rects.rect_zy)
        /\ Disjoint(mcs.rects.rect_map, mcs.rects.rect_xz)
        /\ Disjoint(mcs.rects.rect_map, mcs.rects.rect_zy)
        /\ Disjoint(mcs.rects.rect_xz, mcs.rects.rect_zy)

C2_Witness ==
    /\ ValidLayout
    /\ ~mcs.fill_figure
    /\ RLt(EntryAspect, FigAspect)
    /\ mcs.rects.rect_zy[1] = RAdd(mcs.rects.rect_map[1], mcs.rects.rect_map[3])

\* inches per km of a rectangle side: fraction * figure inches / km
InchPerKm(fraction, inches, km) == RDiv(RMul(fraction, inches), km)

\* C3: after the scale adjustment the inch-per-km factor of the x axis
\* equals that of the y axis, and the map and both depth strips render
\* 1 km as the same length, whichever of plot_aspect and fig_aspect is
\* the larger and with fill_figure on or off.
C3_Isometric ==
    ValidLayout =>
        LET me == mcs.map_extent.val
            de == mcs.depth_extent.val
            k == mcs.inch_per_km_x
        IN  /\ IsFinite(k)
            /\ mcs.inch_per_km_y = k
            /\ InchPerKm(mcs.rects.rect_map[3], mcs.fig_inches[1],
                         lonrange_km(me)) = k
            /\ InchPerKm(mcs.rects.rect_zy[3], mcs.fig_inches[1],
                         depthrange(de)) = k
            /\ InchPerKm(mcs.rects.rect_map[4], mcs.fig_inches[2],
                         latrange_km(me)) = k
            /\ InchPerKm(mcs.rects.rect_xz[4], mcs.fig_inches[2],
                         depthrange(de)) = k

C3_Witness ==
    /\ ValidLayout
    /\ ~mcs.fill_figure
    /\ RGt(EntryAspect, FigAspect)

\* the arguments of the last construction
Args == call.args
DerivedFromSamples ==
    /\ call.op = "MapCrossSection"
    /\ Args.map_extent.kind = "None" /\ Args.depth_extent.kind = "None"
    /\ Args.latitudes.kind = "list" /\ Len(Args.latitudes.val) > 0

\* lo, hi are the least and the greatest of the samples
IsMinMax(samples, lo, hi) ==
    /\ \E i \in 1..Len(samples) : samples[i] = lo
    /\ \E i \in 1..Len(samples) : samples[i] = hi
    /\ \A i \in 1..Len(samples) : RLe(lo, samples[i]) /\ RLe(samples[i], hi)

\* e is [lo, hi] widened on each side by b times (hi - lo)
Buffered(samples, b, e_min, e_max) ==
    \E i, j \in 1..Len(samples) :
        /\ IsMinMax(samples, samples[i], samples[j])
        /\ e_min = RSub(samples[i], RMul(b, RSub(samples[j], samples[i])))
        /\ e_max = RAdd(samples[j], RMul(b, RSub(samples[j], samples[i])))

\* C4 (as claimed): with fill_figure on, for every valid extent (given or
\* derived from samples) and every valid figure, the layout completes and
\* the rectangles fill the usable area: map width + right strip width is
\* the usable width, map height + lower strip height the usable height,
\* as fractions of the figure.
C4_FillsFigure ==
    (call.op = "MapCrossSection" /\ mcs.fill_figure
        /\ ValidExtents /\ ValidFigure) =>
        /\ mcs.status = "ok"
        /\ RAdd(mcs.rects.rect_map[3], mcs.rects.rect_zy[3])
               = RDiv(mcs.fig_xrange, mcs.fig_inches[1])
        /\ RAdd(mcs.rects.rect_map[4], mcs.rects.rect_xz[4])
               = RDiv(mcs.fig_yrange, mcs.fig_inches[2])

\* C6: with no explicit extent and a non-empty sample set, the map extent
\* is (min_lon - b*lon_range, max_lon + b*lon_range, min_lat - b*lat_range,
\* max_lat + b*lat_range) and the depth extent follows the same rule; with
\* b = 0 they are exactly the minima and maxima of the samples.
C6_DerivedExtent ==
    (DerivedFromSamples /\ mcs.entered) =>
        /\ Buffered(Args.longitudes.val, Args.extent_buffer,
                    mcs.entry_map_extent[1], mcs.entry_map_extent[2])
        /\ Buffered(Args.latitudes.val, Args.extent_buffer,
                    mcs.entry_map_extent[3], mcs.entry_map_extent[4])
        /\ Buffered(Args.depths.val, Args.extent_buffer,
                    mcs.entry_depth_extent[1], mcs.entry_depth_extent[2])
        /\ (RIsZero(Args.extent_buffer) =>
               IsMinMax(Args.longitudes.val, mcs.entry_map_extent[1],
                        mcs.entry_map_extent[2]))

C6_Witness ==
    /\ DerivedFromSamples /\ mcs.entered
    /\ Positive(Args.extent_buffer)
    /\ Len(Args.longitudes.val) > 1
    /\ RLt(mcs.entry_map_extent[1], Args.longitudes.val[1])
    /\ RLt(mcs.entry_map_extent[3], Args.latitudes.val[1])

\* C7 (as claimed): _make_rects is never entered with lon_max <= lon_min,
\* lat_max <= lat_min or depth_max <= depth_min, whether the extents were
\* given or derived from samples.
C7_ZeroRangeRejected == mcs.entered => ValidExtents

\* C10 (as claimed): an unrecognized coastline string prints one warning,
\* draws no coastline and leaves the three axes created; a recognized one
\* is drawn at the resolution asked for.
Recognized(coastlines) ==
    coastlines \in (NE_coast_resolutions \cup GSHSS_coast_resolutions)

C10_Coastlines ==
    (Returned /\ Args.coastlines # "None") =>
        IF Recognized(Args.coastlines)
        THEN mcs.printed = 0 /\ mcs.coast_drawn.resolution = Args.coastlines
        ELSE /\ mcs.printed = 1
             /\ mcs.coast_drawn = NoCoast
             /\ mcs.axes = {"ax_xz", "ax_zy", "ax_map"}

(***************************************************************************)
(* Properties of the plotter (SpecPlot) and of state shared with callers.  *)
(***************************************************************************)
\* plot_events got as far as drawing: no circle argument, and
\* _set_plot_params went through the whole catalog
Plotting ==
    /\ call.op = "plot_events" /\ ~call.circle
    /\ Len(plotter.colors) = Len(cat)

\* C5 (as claimed): in one _plot_original_relocated pass over a catalog,
\* both figures are produced and the relocated-events figure has the map
\* extent and depth extent of the original-events figure, whether the
\* plotter's extents were given or are None.
C5_SameExtents ==
    (Plotting /\ Len(cat) > 0) =>
        /\ Len(figs) = 2
        /\ figs[2].figure.map_extent = figs[1].figure.map_extent
        /\ figs[2].figure.depth_extent = figs[1].figure.depth_extent

\* C8 (as claimed): calls leave the caller's map_extent, depth_extent and
\* polygon lists as they were, and a plot_events call that passes no
\* coastlines draws none, whatever earlier calls passed.
C8_NoPersistentMutation ==
    /\ caller = caller0
    /\ (call.op = "plot_events" /\ call.coastlines = "None") =>
           \A i \in 1..Len(figs) : figs[i].figure.coast_drawn = NoCoast

\* the colour the claim gives an event: the unclustered colour without a
\* valid cluster annotation, else palette[c mod palette_size]
HasHypoDDMethod(origin) ==
    Len(origin.method_id) > 0 /\ StrIn(HYPODD, StrUpper(origin.method_id))

TaggedComments(origin) ==
    {i \in 1..Len(origin.comments) : StrIn(ClusterTag, origin.comments[i])}

ClaimedColor(event) ==
    LET origin == LastOrigin(event)
        tagged == TaggedComments(origin)
        first == CHOOSE i \in tagged : \A j \in tagged : i <= j
    IN  IF HasHypoDDMethod(origin) /\ tagged # {}
           /\ ParseInt(LastField(origin.comments[first])).ok
        THEN [cmap |-> "Paired",
              index |-> ParseInt(LastField(origin.comments[first])).value
                            % PaletteSize]
        ELSE color_invalid

\* C9 (as claimed): _set_plot_params gives every event a colour without
\* failing: the unclustered colour when the last origin has no valid
\* cluster annotation, palette[c mod palette_size] for cluster id c.
C9_Colours ==
    (call.op = "plot_events" /\ ~call.circle) =>
        /\ Len(plotter.colors) = Len(cat)
        /\ \A i \in 1..Len(cat) : plotter.colors[i] = ClaimedColor(cat[i])

\* C11 (as claimed): a plot_events call that passes circle = [lon, lat,
\* radius], with or without a polygon, completes: it saves both figures
\* and returns the two output filenames.
C11_CircleShape ==
    (call.op = "plot_events" /\ call.circle) =>
        /\ call.status = "ok"
        /\ Len(figs) = 2
        /\ plotter.original_filename = Filename(call.file_base, "_original.pdf")
        /\ plotter.relocated_filename = Filename(call.file_base, "_relocated.pdf")

(***************************************************************************)
(* Properties of the selection of events (SpecSelect).                     *)
(***************************************************************************)
\* the positions in cat of the events whose preferred origin the shape
\* contains
Inside(shape) ==
    {i \in 1..Len(cat) :
        Contains(shape, cat[i].origins[cat[i].preferred].longitude,
                 cat[i].origins[cat[i].preferred].latitude)}

\* the k-th smallest element of a set of positions
Kth(S, k) == CHOOSE i \in S : Cardinality({j \in S : j <= i}) = k

\* result holds exactly the events of cat at the positions S, in order
Picks(result, S) ==
    /\ Len(result) = Cardinality(S)
    /\ \A k \in 1..Len(result) : result[k] = cat[Kth(S, k)]

Selected ==
    /\ sel.include.run => Picks(sel.include.catalog, Inside(sel.shape))
    /\ sel.exclude.run =>
           Picks(sel.exclude.catalog, (1..Len(cat)) \ Inside(sel.shape))
    /\ (sel.include.run /\ sel.exclude.run) =>
           /\ Len(sel.include.catalog) + Len(sel.exclude.catalog) = Len(cat)
           /\ \A i \in 1..Len(cat) :
                  (\E k \in 1..Len(sel.include.catalog) :
                       sel.include.catalog[k] = cat[i])
                  # (\E k \in 1..Len(sel.exclude.catalog) :
                         sel.exclude.catalog[k] = cat[i])

\* C12: include returns exactly the events whose preferred origin
\* (lon, lat) the shape contains and exclude exactly the others, each in
\* catalog order; the two results are disjoint and together hold every
\* event of the catalog once; the input catalog is left unchanged.
C12_IncludeExclude == [] Selected /\ [][cat' = cat]_vars

C12_Witness ==
    /\ sel.include.run /\ sel.exclude.run
    /\ sel.shape.kind = "Circle"
    /\ Len(cat) = 2
    /\ Len(sel.include.catalog) = 1 /\ Len(sel.exclude.catalog) = 1

(***************************************************************************)
(* Properties of the panels drawn by plot_events (SpecPlot).               *)
(***************************************************************************)
\* the origin of event i that figure k shows: the first origin in the
\* original figure (k = 1), the last in the relocated one
ShownOrigin(k, i) ==
    IF k = 1 THEN cat[i].origins[1] ELSE cat[i].origins[Len(cat[i].origins)]

ShownLon(k, i) == ShownOrigin(k, i).longitude
ShownLat(k, i) == ShownOrigin(k, i).latitude
ShownDepth(k, i) == RDiv(ShownOrigin(k, i).depth, R(1000))

\* the positions in cat of the events whose inside-mask is true
Masked == {i \in 1..Len(plotter.inshape) : plotter.inshape[i]}

\* panel has the two layers claimed, xy[i] being the point of event i
TwoLayers(panel, xy) ==
    /\ Len(panel.layer1) = Len(cat)
    /\ \A i \in 1..Len(cat) : panel.layer1[i] = xy[i]
    /\ Len(panel.layer2) = Cardinality(Masked)
    /\ Len(panel.colors2) = Cardinality(Masked)
    /\ \A k \in 1..Cardinality(Masked) :
           /\ panel.layer2[k] = xy[Kth(Masked, k)]
           /\ panel.colors2[k] = plotter.colors[Kth(Masked, k)]

\* C13 (as claimed): in each of the three panels of each figure saved,
\* the first layer holds every event of the catalog and the second exactly
\* the events whose inside-mask is true, each at its own (x, y) and with
\* its own cluster colour, in catalog order; without a shape the mask is
\* true for every event; the mask and the colour list are as long as the
\* positions drawn.
C13_Layers ==
    (call.op = "plot_events" /\ Len(figs) > 0) =>
        /\ Len(plotter.inshape) = Len(cat)
        /\ Len(plotter.colors) = Len(cat)
        /\ ~call.polygon => \A i \in 1..Len(cat) : plotter.inshape[i]
        /\ \A k \in 1..Len(figs) :
               /\ TwoLayers(figs[k].figure.ax_map,
                     [i \in 1..Len(cat) |-> << ShownLon(k, i), ShownLat(k, i) >>])
               /\ TwoLayers(figs[k].figure.ax_zy,
                     [i \in 1..Len(cat) |-> << ShownDepth(k, i), ShownLat(k, i) >>])
               /\ TwoLayers(figs[k].figure.ax_xz,
                     [i \in 1..Len(cat) |-> << ShownLon(k, i), ShownDepth(k, i) >>])

(***************************************************************************)
(* The rectangles and the usable drawing area (SpecLayout).                *)
(***************************************************************************)
\* the usable area's edges as fractions of the figure
UsableLeft == RDiv(mcs.pad.left, mcs.fig_inches[1])
UsableBottom == RDiv(mcs.pad.bottom, mcs.fig_inches[2])
UsableRight == RDiv(RSub(mcs.fig_inches[1], mcs.pad.right), mcs.fig_inches[1])
UsableTop == RDiv(RSub(mcs.fig_inches[2], mcs.pad.top), mcs.fig_inches[2])

RightEdge(rect) == RAdd(rect[1], rect[3])
TopEdge(rect) == RAdd(rect[2], rect[4])

\* C14: for a valid layout, fill_figure on or off, the rectangles stay
\* inside the usable area: the left edge is pad_left / fig_width, the
\* lower edge pad_bottom / fig_height, the right strip ends at or before
\* (fig_width - pad_right) / fig_width and the map at or below
\* (fig_height - pad_top) / fig_height, one of the two with equality.
C14_InsideUsableArea ==
    ValidLayout =>
        /\ mcs.rects.rect_map[1] = UsableLeft
        /\ mcs.rects.rect_xz[1] = UsableLeft
        /\ mcs.rects.rect_xz[2] = UsableBottom
        /\ RLe(UsableLeft, mcs.rects.rect_zy[1])
        /\ RLe(UsableBottom, mcs.rects.rect_map[2])
        /\ RLe(UsableBottom, mcs.rects.rect_zy[2])
        /\ RLe(RightEdge(mcs.rects.rect_zy), UsableRight)
        /\ RLe(RightEdge(mcs.rects.rect_map), UsableRight)
        /\ RLe(RightEdge(mcs.rects.rect_xz), UsableRight)
        /\ RLe(TopEdge(mcs.rects.rect_map), UsableTop)
        /\ RLe(TopEdge(mcs.rects.rect_zy), UsableTop)
        /\ RLe(TopEdge(mcs.rects.rect_xz), UsableTop)
        /\ \/ RightEdge(mcs.rects.rect_zy) = UsableRight
           \/ TopEdge(mcs.rects.rect_map) = UsableTop

\* the height binds and the width is not filled
C14_Witness ==
    /\ ValidLayout
    /\ RightEdge(mcs.rects.rect_zy) # UsableRight
    /\ TopEdge(mcs.rects.rect_map) = UsableTop
    /\ mcs.pad.left # mcs.pad.right

====
